---- MODULE Spec2Model ----
(***************************************************************************)
(* Model of the road-network core of the KL shortest-route demo:           *)
(*   backend/graph_loader.py  load_graph, _prep_node_arrays, nearest_node  *)
(*   backend/routing.py       astar_shortest_path, _compressed_undirected, *)
(*                            route_total_length_m                         *)
(*   backend/app.py           route_endpoint (the snap & route pipeline)   *)
(*                                                                         *)
(* Numbers.  Python floats are modelled by integers: lengths are whole     *)
(* metres, float("inf") is Inf.  All nodes lie on one meridian (x = Lon0)  *)
(* and latitudes are whole steps of 2.7e-4 degrees.  For lon1 = lon2 the   *)
(* haversine formula reduces to a = sin(dphi/2)^2, hence                   *)
(* 2*R*asin(sqrt(a)) = R*|dphi|, which is StepMetres for each step.        *)
(*                                                                         *)
(* The snapshot lists its nodes in ascending id order and its edges sorted  *)
(* by (from, to), so the edge sequence of a graph is also networkx's       *)
(* G.edges iteration order.  An edge of the file carries a length in       *)
(* metres, a negative number (float() parses it), text that float()        *)
(* rejects, or no length at all.                                           *)
(***************************************************************************)
EXTENDS Integers, Sequences, FiniteSets, TLC

\* ---------------------------------------------------------------- bounds
MaxNodes == 3
MaxEdges == 3
MaxLat == 2
MaxRouteLen == 3
NumThreads == 2

\* ------------------------------------------------------------- constants
\* R * radians(2.7e-4) = 30.02 m, R = 6371000.0
StepMetres == 30
\* float("inf")
Inf == 1000000
\* the 'length' key is absent from the edge's data
NoLength == -1
\* the 'length' value does not parse as a float
BadLength == -2
\* the meridian every node lies on
Lon0 == 0
\* Python's None (the parent of the source in the search queue); node ids are 1, 2, ...
None == 0
\* a key that a dict (enqueued, explored) does not hold
Absent == -1

Lengths == {30, 50}
NodeIds == 1..MaxNodes
Lats == 0..MaxLat

VARIABLES
    snapshot,   \* the GraphML file kl_drive.graphml as parsed
    loaded,     \* app.py has executed G = load_graph()
    G,          \* app.py's module global G
    node_ids,   \* graph_loader._node_ids
    node_lat,   \* graph_loader._node_lat
    node_lon,   \* graph_loader._node_lon
    call,       \* the library call in progress and its result
    th          \* the request threads running route_endpoint

vars == <<snapshot, loaded, G, node_ids, node_lat, node_lon, call, th>>

\* ------------------------------------------------------- small utilities
Abs(a) == IF a < 0 THEN -a ELSE a

Range(s) == {s[i] : i \in DOMAIN s}

SetMin(S) == CHOOSE a \in S : \A b \in S : a <= b

RECURSIVE SumSeq(_)
SumSeq(s) == IF s = <<>> THEN 0 ELSE Head(s) + SumSeq(Tail(s))

\* s without the repetitions of an element, first occurrences kept in order
RECURSIVE Dedup(_)
Dedup(s) ==
    IF s = <<>> THEN <<>>
    ELSE LET r == Dedup(SubSeq(s, 1, Len(s) - 1))
             a == s[Len(s)]
         IN  IF a \in Range(r) THEN r ELSE Append(r, a)

\* -------------------------------------------------------------- haversine
\* graph_loader._haversine_m and routing.haversine_m, on one meridian
Haversine(lat1, lon1, lat2, lon2) == StepMetres * Abs(lat2 - lat1)

\* ------------------------------------------------- networkx graph access
EmptyGraph == [nodes |-> <<>>, y |-> <<>>, x |-> <<>>, edges |-> <<>>]

NodeSet(g) == Range(g.nodes)

\* the lengths of the parallel edges u -> v, as a sequence in key order
ParallelLengths(g, u, v) ==
    LET es == SelectSeq(g.edges, LAMBDA e : e.u = u /\ e.v = v)
    IN  [i \in DOMAIN es |-> es[i].length]

\* G.has_edge(u, v)
HasEdge(g, u, v) == \E i \in DOMAIN g.edges : g.edges[i].u = u /\ g.edges[i].v = v

\* G._adj[u]: the successors of u in insertion order
Successors(g, u) ==
    LET es == SelectSeq(g.edges, LAMBDA e : e.u = u)
    IN  Dedup([i \in DOMAIN es |-> es[i].v])

\* ------------------------------------------------------------ load_graph
\* lines 44-55: every edge gets a numeric 'length'
CoerceLength(g, e) ==
    IF e.length = NoLength
    THEN Haversine(g.y[e.u], g.x[e.u], g.y[e.v], g.x[e.v])
    ELSE IF e.length = BadLength
         THEN Haversine(g.y[e.u], g.x[e.u], g.y[e.v], g.x[e.v])
         ELSE e.length

CoerceEdges(g) ==
    [g EXCEPT !.edges = [i \in DOMAIN g.edges |->
                            [g.edges[i] EXCEPT !.length = CoerceLength(g, g.edges[i])]]]

\* nx.weakly_connected_components: the nodes reachable from n, direction ignored
RECURSIVE Grow(_, _)
Grow(g, S) ==
    LET T == S \cup {e.v : e \in {f \in Range(g.edges) : f.u \in S}}
                 \cup {e.u : e \in {f \in Range(g.edges) : f.v \in S}}
    IN  IF T = S THEN S ELSE Grow(g, T)

Component(g, n) == Grow(g, {n})

\* the components in the order their first node is met in G
Wccs(g) == Dedup([i \in DOMAIN g.nodes |-> Component(g, g.nodes[i])])

\* variant: the component met first, whatever its size
LargestFirst(wccs) == wccs[1]

\* max(wccs, key=len): the first component of the greatest size
Largest(wccs) ==
    LET best == CHOOSE i \in DOMAIN wccs :
                    /\ \A j \in DOMAIN wccs : Cardinality(wccs[j]) <= Cardinality(wccs[i])
                    /\ \A j \in 1..(i - 1) : Cardinality(wccs[j]) < Cardinality(wccs[i])
    IN  wccs[best]

\* G.subgraph(keep).copy()
Subgraph(g, keep) ==
    LET ns == SelectSeq(g.nodes, LAMBDA n : n \in keep)
    IN  [nodes |-> ns,
         y     |-> [n \in Range(ns) |-> g.y[n]],
         x     |-> [n \in Range(ns) |-> g.x[n]],
         edges |-> SelectSeq(g.edges, LAMBDA e : e.u \in keep /\ e.v \in keep)]

\* lines 57-62: keep only the largest weakly-connected component
Reduce(g) ==
    IF Len(g.nodes) > 0
    THEN LET wccs == Wccs(g)
         IN  IF Len(wccs) > 1 THEN Subgraph(g, Largest(wccs)) ELSE g
    ELSE g

LoadGraph(snap) == Reduce(CoerceEdges(snap))

\* ------------------------------------------------------------- snapshots
\* the ordered pairs of distinct nodes among 1..n, sorted by (from, to)
Pairs(n) ==
    LET all == [i \in 1..(n * n) |-> <<((i - 1) \div n) + 1, ((i - 1) % n) + 1>>]
    IN  SelectSeq(all, LAMBDA p : p[1] # p[2])

\* the pairs of Pairs(n) that join neighbours i, i + 1 of the line 1 .. n
LinePairs(n) == SelectSeq(Pairs(n), LAMBDA p : Abs(p[1] - p[2]) = 1)

\* the numeric lengths in ascending order
LengthSeq ==
    [i \in 1..Cardinality(Lengths) |->
        CHOOSE a \in Lengths : Cardinality({b \in Lengths : b < a}) = i - 1]

\* the 'length' attributes an edge of the file may carry: none, text that
\* is no number, a negative number, a length in metres
AttrSeq == <<NoLength, BadLength, 0 - StepMetres>> \o LengthSeq

\* edge kind number c: pair by pair, attribute by attribute
EdgeOfCode(pairs, attrs, c) ==
    LET p == pairs[((c - 1) \div Len(attrs)) + 1]
    IN  [u |-> p[1], v |-> p[2], length |-> attrs[((c - 1) % Len(attrs)) + 1]]

\* cs is sorted: the file lists its edges by (from, to)
Sorted(cs) == \A i \in 1..(Len(cs) - 1) : cs[i] <= cs[i + 1]

\* the edge list whose edge kinds are numbered cs
EdgesOf(pairs, attrs, cs) == [i \in DOMAIN cs |-> EdgeOfCode(pairs, attrs, cs[i])]

MakeSnapshot(n, lat, es) ==
    [nodes |-> [i \in 1..n |-> i],
     y     |-> lat,
     x     |-> [i \in 1..n |-> Lon0],
     edges |-> es]

\* node i at latitude (i - 1) % (MaxLat + 1)
LineLat(n) == [i \in 1..n |-> (i - 1) % (MaxLat + 1)]

\* the chain 1 -> 2 -> ... -> n with some links missing: link i -> i + 1 is
\* absent (0) or carries attribute number links[i]
RECURSIVE ChainEdges(_, _)
ChainEdges(links, i) ==
    IF i > Len(links) THEN <<>>
    ELSE (IF links[i] = 0 THEN <<>>
          ELSE <<[u |-> i, v |-> i + 1, length |-> AttrSeq[links[i]]]>>)
         \o ChainEdges(links, i + 1)

\* every pair of neighbours of the line is joined by exactly one of es
OneWayStreets(n, es) ==
    \A i \in 1..(n - 1) :
        Cardinality({j \in DOMAIN es : {es[j].u, es[j].v} = {i, i + 1}}) = 1

\* ---------------------------------------------------------- nearest_node
\* variant: the loop compares with <=, so the last of several equidistant
\* nodes wins
RECURSIVE NearestLoopLast(_, _, _, _, _, _, _)
NearestLoopLast(ids, lats, lons, lat, lon, i, best) ==
    IF i > Len(ids) THEN best
    ELSE LET d == Haversine(lat, lon, lats[i], lons[i])
         IN  NearestLoopLast(ids, lats, lons, lat, lon, i + 1,
                             IF d <= best.d THEN [idx |-> i, d |-> d] ELSE best)

\* the for loop of nearest_node over the cached arrays, from index i on
\* (indices are 1-based here: Python's best_idx = 0 is index 1)
RECURSIVE NearestLoop(_, _, _, _, _, _, _)
NearestLoop(ids, lats, lons, lat, lon, i, best) ==
    IF i > Len(ids) THEN best
    ELSE LET d == Haversine(lat, lon, lats[i], lons[i])
         IN  NearestLoop(ids, lats, lons, lat, lon, i + 1,
                         IF d < best.d THEN [idx |-> i, d |-> d] ELSE best)

\* nearest_node: _node_ids[best_idx], an IndexError when the arrays are empty
NearestNodeOf(ids, lats, lons, lat, lon) ==
    LET best == NearestLoop(ids, lats, lons, lat, lon, 1, [idx |-> 1, d |-> Inf])
    IN  IF best.idx \in DOMAIN ids
        THEN [ok |-> TRUE, exc |-> "", node |-> ids[best.idx]]
        ELSE [ok |-> FALSE, exc |-> "IndexError", node |-> None]

\* ------------------------------------------------------------ nx.astar_path
\* min(), starting from float("inf")
MinLength(lens) == SetMin(Range(lens) \cup {Inf})

\* What astar_path reads of a MultiDiGraph: G._adj and, through
\* _weight_function, the least 'length' among the parallel edges u -> v.
DirectedView(g) ==
    [nodes  |-> g.nodes, y |-> g.y, x |-> g.x,
     adj    |-> [n \in NodeSet(g) |-> Successors(g, n)],
     length |-> [p \in NodeSet(g) \X NodeSet(g) |-> MinLength(ParallelLengths(g, p[1], p[2]))]]

\* _compressed_undirected lines 31-37, from edge i of G.edges on
RECURSIVE AddUndirected(_, _, _)
AddUndirected(g, i, ug) ==
    IF i > Len(g.edges) THEN ug
    ELSE LET u == g.edges[i].u
             v == g.edges[i].v
             w == g.edges[i].length
         IN  AddUndirected(g, i + 1,
                IF v \in Range(ug.adj[u])
                THEN IF w < ug.length[<<u, v>>]
                     THEN [ug EXCEPT !.length[<<u, v>>] = w, !.length[<<v, u>>] = w]
                     ELSE ug
                ELSE [ug EXCEPT !.adj[u] = Append(@, v), !.adj[v] = Append(@, u),
                                !.length[<<u, v>>] = w, !.length[<<v, u>>] = w])

\* _compressed_undirected
CompressedUndirected(g) ==
    AddUndirected(g, 1,
        [nodes  |-> g.nodes, y |-> g.y, x |-> g.x,
         adj    |-> [n \in NodeSet(g) |-> <<>>],
         length |-> [p \in NodeSet(g) \X NodeSet(g) |-> Inf]])

\* _heuristic_for(G)(u, v)
Heuristic(sg, u, v) == Haversine(sg.y[u], sg.x[u], sg.y[v], sg.x[v])

\* heappop: the entry of the least (priority, count)
PopMin(queue) ==
    CHOOSE e \in queue :
        \A f \in queue : e.prio < f.prio \/ (e.prio = f.prio /\ e.cnt <= f.cnt)

\* astar_path's for loop over the neighbours nbrs of curnode
RECURSIVE Relax(_, _, _, _, _, _)
Relax(sg, target, curnode, dist, nbrs, st) ==
    IF nbrs = <<>> THEN st
    ELSE LET neighbor == Head(nbrs)
             ncost    == dist + sg.length[<<curnode, neighbor>>]
             h        == Heuristic(sg, neighbor, target)
         IN  Relax(sg, target, curnode, dist, Tail(nbrs),
                IF st.enqueued[neighbor] # Absent /\ st.enqueued[neighbor] <= ncost
                THEN st
                ELSE [st EXCEPT
                        !.enqueued[neighbor] = ncost,
                        !.queue = @ \cup {[prio |-> ncost + h, cnt |-> st.c,
                                           node |-> neighbor, dist |-> ncost,
                                           parent |-> curnode]},
                        !.c = @ + 1])

\* variant: the walk back along explored is not reversed
RECURSIVE BuildPathBackwards(_, _, _)
BuildPathBackwards(explored, node, acc) ==
    IF node = None THEN acc
    ELSE BuildPathBackwards(explored, explored[node], Append(acc, node))

\* astar_path's walk back along explored, from the target's parent
RECURSIVE BuildPath(_, _, _)
BuildPath(explored, node, acc) ==
    IF node = None THEN acc
    ELSE BuildPath(explored, explored[node], <<node>> \o acc)

\* astar_path's while loop
RECURSIVE AstarLoop(_, _, _)
AstarLoop(sg, target, st) ==
    IF st.queue = {}
    THEN [ok |-> FALSE, exc |-> "NetworkXNoPath", path |-> <<>>]
    ELSE LET e    == PopMin(st.queue)
             rest == [st EXCEPT !.queue = @ \ {e}]
         IN  IF e.node = target
             THEN [ok |-> TRUE, exc |-> "",
                   path |-> BuildPath(st.explored, e.parent, <<e.node>>)]
             ELSE IF /\ st.explored[e.node] # Absent
                     /\ \/ st.explored[e.node] = None
                        \/ st.enqueued[e.node] < e.dist
                  THEN AstarLoop(sg, target, rest)
                  ELSE AstarLoop(sg, target,
                         Relax(sg, target, e.node, e.dist, sg.adj[e.node],
                               [rest EXCEPT !.explored[e.node] = e.parent]))

\* nx.astar_path(G, source, target, heuristic, weight="length")
AstarPath(sg, source, target) ==
    IF source \notin Range(sg.nodes) \/ target \notin Range(sg.nodes)
    THEN [ok |-> FALSE, exc |-> "NodeNotFound", path |-> <<>>]
    ELSE AstarLoop(sg, target,
            [queue    |-> {[prio |-> 0, cnt |-> 0, node |-> source, dist |-> 0,
                            parent |-> None]},
             c        |-> 1,
             enqueued |-> [n \in Range(sg.nodes) |-> Absent],
             explored |-> [n \in Range(sg.nodes) |-> Absent]])

\* variant: the undirected view is searched first
AstarUndirectedFirst(g, source, target) ==
    LET first == AstarPath(CompressedUndirected(g), source, target)
    IN  IF first.ok
        THEN [ok |-> TRUE, exc |-> "", path |-> first.path, phase |-> "undirected"]
        ELSE LET second == AstarPath(DirectedView(g), source, target)
             IN  [ok |-> second.ok, exc |-> second.exc, path |-> second.path,
                  phase |-> "directed"]

\* variant: no fallback, the directed search's failure is final
AstarDirectedOnly(g, source, target) ==
    LET first == AstarPath(DirectedView(g), source, target)
    IN  [ok |-> first.ok, exc |-> first.exc, path |-> first.path, phase |-> "directed"]

\* astar_shortest_path: directed first, the undirected view on no path
AstarShortestPath(g, source, target) ==
    LET first == AstarPath(DirectedView(g), source, target)
    IN  IF first.ok
        THEN [ok |-> TRUE, exc |-> "", path |-> first.path, phase |-> "directed"]
        ELSE LET second == AstarPath(CompressedUndirected(g), source, target)
             IN  [ok |-> second.ok, exc |-> second.exc, path |-> second.path,
                  phase |-> "undirected"]

\* ------------------------------------------------- route_total_length_m
\* variant: each parallel edge overwrites min_len, so the last one counts
SegmentLengthLast(g, u, v) ==
    LET last(lens) == IF lens = <<>> THEN Inf ELSE lens[Len(lens)]
        min_len == IF HasEdge(g, u, v) THEN last(ParallelLengths(g, u, v))
                   ELSE IF HasEdge(g, v, u) THEN last(ParallelLengths(g, v, u))
                   ELSE Inf
    IN  IF min_len # Inf THEN min_len ELSE 0

\* lines 55-76: what the pair (u, v) adds to the total
SegmentLength(g, u, v) ==
    LET min_len == IF HasEdge(g, u, v) THEN MinLength(ParallelLengths(g, u, v))
                   ELSE IF HasEdge(g, v, u) THEN MinLength(ParallelLengths(g, v, u))
                   ELSE Inf
    IN  IF min_len # Inf THEN min_len ELSE 0

RouteTotalLength(g, route) ==
    SumSeq([i \in 1..(Len(route) - 1) |-> SegmentLength(g, route[i], route[i + 1])])

\* ------------------------------------------------------------------ calls
\* The network a library call is given: app.py's G, or the network of the
\* snapshot as a caller builds it directly, with no reduction.
Net(tag) == IF tag = "loaded" THEN G ELSE CoerceEdges(snapshot)

NetTags == {"loaded", "raw"}

QueryLats == (0 - 1)..(MaxLat + 1)

\* the routes a caller may hand to route_total_length_m
Routes == UNION {[1..k -> NodeIds] : k \in 0..MaxRouteLen}

Idle ==
    [op |-> "idle", net |-> "loaded", lat |-> 0, s |-> None, t |-> None,
     route |-> <<>>, ok |-> TRUE, exc |-> "", node |-> None, phase |-> "",
     total |-> 0]

\* a request thread of route_endpoint, before its request arrives
NoRequest ==
    [pc |-> "idle", a_lat |-> 0, b_lat |-> 0, src |-> None, dst |-> None,
     route |-> <<>>, phase |-> "", dist_m |-> 0, exc |-> ""]

Threads == 1..NumThreads

\* the places the concurrent requests ask for: the two ends of the line
EndLats == {0, MaxLat}

\* the process before app.py line 43 has run
Init ==
    /\ snapshot = EmptyGraph
    /\ loaded = FALSE
    /\ G = EmptyGraph
    /\ node_ids = <<>>
    /\ node_lat = <<>>
    /\ node_lon = <<>>
    /\ call = Idle
    /\ th = [i \in Threads |-> NoRequest]

\* app.py line 43: G = load_graph(), which reads the snapshot file and ends
\* in _prep_node_arrays(G)
LoadSnapshot(snap) ==
    /\ ~loaded
    /\ loaded' = TRUE
    /\ snapshot' = snap
    /\ G' = LoadGraph(snap)
    /\ node_ids' = G'.nodes
    /\ node_lat' = [i \in DOMAIN G'.nodes |-> G'.y[G'.nodes[i]]]
    /\ node_lon' = [i \in DOMAIN G'.nodes |-> G'.x[G'.nodes[i]]]
    /\ UNCHANGED <<call, th>>

\* Networks of any shape: at most MaxEdges edges of numeric length between
\* any nodes, parallel and opposite edges included.
Load ==
    /\ ~loaded
    /\ \E n \in 0..MaxNodes, k \in 0..MaxEdges :
        \E cs \in [1..k -> 1..(Len(Pairs(n)) * Len(LengthSeq))] :
            /\ Sorted(cs)
            /\ LoadSnapshot(MakeSnapshot(n, LineLat(n), EdgesOf(Pairs(n), LengthSeq, cs)))

\* Networks of any placement: chains whose nodes lie anywhere and whose
\* lengths may be missing or unparsable.
LoadChain ==
    /\ ~loaded
    /\ \E n \in 0..MaxNodes :
        \E lat \in [1..n -> Lats],
           links \in [1..(IF n = 0 THEN 0 ELSE n - 1) -> 0..Len(AttrSeq)] :
            LoadSnapshot(MakeSnapshot(n, lat, ChainEdges(links, 1)))

\* Islands: up to MaxNodes + 2 nodes in a line, each link between neighbours
\* absent or present, so that the snapshot falls into several regions.
LoadIslands ==
    /\ ~loaded
    /\ \E n \in 0..(MaxNodes + 2) :
        \E links \in [1..(IF n = 0 THEN 0 ELSE n - 1) -> 0..Len(AttrSeq)] :
            LoadSnapshot(MakeSnapshot(n, LineLat(n), ChainEdges(links, 1)))

\* Networks along a line: at most MaxEdges edges of numeric length between
\* neighbours, parallel and opposite edges included.
LoadLine ==
    /\ ~loaded
    /\ \E n \in 0..MaxNodes, k \in 0..MaxEdges :
        \E cs \in [1..k -> 1..(Len(LinePairs(n)) * Len(LengthSeq))] :
            /\ Sorted(cs)
            /\ LoadSnapshot(MakeSnapshot(n, LineLat(n), EdgesOf(LinePairs(n), LengthSeq, cs)))

\* One-way streets: MaxNodes nodes in a line, each pair of neighbours joined
\* by one edge in one of the two directions.
LoadStreet ==
    /\ ~loaded
    /\ \E cs \in [1..(MaxNodes - 1) -> 1..(Len(LinePairs(MaxNodes)) * Len(LengthSeq))] :
        /\ Sorted(cs)
        /\ OneWayStreets(MaxNodes, EdgesOf(LinePairs(MaxNodes), LengthSeq, cs))
        /\ LoadSnapshot(MakeSnapshot(MaxNodes, LineLat(MaxNodes),
                                     EdgesOf(LinePairs(MaxNodes), LengthSeq, cs)))

\* nearest_node(G, lat, lon)
NearestNode(lat) ==
    /\ loaded /\ call.op = "idle"
    /\ LET r == NearestNodeOf(node_ids, node_lat, node_lon, lat, Lon0)
       IN  call' = [Idle EXCEPT !.op = "nearest_node", !.lat = lat,
                                !.ok = r.ok, !.exc = r.exc, !.node = r.node]
    /\ UNCHANGED <<snapshot, loaded, G, node_ids, node_lat, node_lon, th>>

\* astar_shortest_path(net, s, t)
ShortestPath(net, s, t) ==
    /\ loaded /\ call.op = "idle"
    /\ LET r == AstarShortestPath(Net(net), s, t)
       IN  call' = [Idle EXCEPT !.op = "astar_shortest_path", !.net = net,
                                !.s = s, !.t = t, !.ok = r.ok, !.exc = r.exc,
                                !.route = r.path, !.phase = r.phase]
    /\ UNCHANGED <<snapshot, loaded, G, node_ids, node_lat, node_lon, th>>

\* route_total_length_m(net, route)
TotalLength(net, route) ==
    /\ loaded /\ call.op = "idle"
    /\ call' = [Idle EXCEPT !.op = "route_total_length_m", !.net = net,
                            !.route = route,
                            !.total = RouteTotalLength(Net(net), route)]
    /\ UNCHANGED <<snapshot, loaded, G, node_ids, node_lat, node_lon, th>>

\* the call returns to its caller
Return ==
    /\ call.op # "idle"
    /\ call' = Idle
    /\ UNCHANGED <<snapshot, loaded, G, node_ids, node_lat, node_lon, th>>

\* ------------------------------------------------- route_endpoint threads
\* lines 150-151: a request arrives and its two places are geocoded
Request(i, a_lat, b_lat) ==
    /\ loaded /\ th[i].pc = "idle"
    /\ th' = [th EXCEPT ![i] = [@ EXCEPT !.pc = "snap_src", !.a_lat = a_lat,
                                         !.b_lat = b_lat]]
    /\ UNCHANGED <<snapshot, loaded, G, node_ids, node_lat, node_lon, call>>

\* line 154: src = nearest_node(G, a_lat, a_lon)
SnapSrc(i) ==
    /\ loaded /\ th[i].pc = "snap_src"
    /\ LET r == NearestNodeOf(node_ids, node_lat, node_lon, th[i].a_lat, Lon0)
       IN  th' = [th EXCEPT ![i] =
                    IF r.ok THEN [@ EXCEPT !.pc = "snap_dst", !.src = r.node]
                    ELSE [@ EXCEPT !.pc = "failed", !.exc = r.exc]]
    /\ UNCHANGED <<snapshot, loaded, G, node_ids, node_lat, node_lon, call>>

\* line 155: dst = nearest_node(G, b_lat, b_lon)
SnapDst(i) ==
    /\ loaded /\ th[i].pc = "snap_dst"
    /\ LET r == NearestNodeOf(node_ids, node_lat, node_lon, th[i].b_lat, Lon0)
       IN  th' = [th EXCEPT ![i] =
                    IF r.ok THEN [@ EXCEPT !.pc = "search", !.dst = r.node]
                    ELSE [@ EXCEPT !.pc = "failed", !.exc = r.exc]]
    /\ UNCHANGED <<snapshot, loaded, G, node_ids, node_lat, node_lon, call>>

\* line 156, astar_shortest_path lines 44-45: the directed search
Search(i) ==
    /\ loaded /\ th[i].pc = "search"
    /\ LET r == AstarPath(DirectedView(G), th[i].src, th[i].dst)
       IN  th' = [th EXCEPT ![i] =
                    IF r.ok
                    THEN [@ EXCEPT !.pc = "measure", !.route = r.path,
                                   !.phase = "directed"]
                    ELSE [@ EXCEPT !.pc = "fallback"]]
    /\ UNCHANGED <<snapshot, loaded, G, node_ids, node_lat, node_lon, call>>

\* variant: the undirected view is built in place, every edge of G gaining
\* its reverse
FallbackInPlace(i) ==
    /\ loaded /\ th[i].pc = "fallback"
    /\ G' = [G EXCEPT !.edges = @ \o [k \in DOMAIN G.edges |->
                                        [u |-> G.edges[k].v, v |-> G.edges[k].u,
                                         length |-> G.edges[k].length]]]
    /\ LET r == AstarPath(DirectedView(G'), th[i].src, th[i].dst)
       IN  th' = [th EXCEPT ![i] =
                    IF r.ok
                    THEN [@ EXCEPT !.pc = "measure", !.route = r.path,
                                   !.phase = "undirected"]
                    ELSE [@ EXCEPT !.pc = "failed", !.exc = r.exc]]
    /\ UNCHANGED <<snapshot, loaded, node_ids, node_lat, node_lon, call>>

\* astar_shortest_path lines 46-49: the undirected view, built and searched
Fallback(i) ==
    /\ loaded /\ th[i].pc = "fallback"
    /\ LET r == AstarPath(CompressedUndirected(G), th[i].src, th[i].dst)
       IN  th' = [th EXCEPT ![i] =
                    IF r.ok
                    THEN [@ EXCEPT !.pc = "measure", !.route = r.path,
                                   !.phase = "undirected"]
                    ELSE [@ EXCEPT !.pc = "failed", !.exc = r.exc]]
    /\ UNCHANGED <<snapshot, loaded, G, node_ids, node_lat, node_lon, call>>

\* line 159: dist_m = route_total_length_m(G, node_route)
Measure(i) ==
    /\ loaded /\ th[i].pc = "measure"
    /\ th' = [th EXCEPT ![i] =
                [@ EXCEPT !.pc = "done",
                          !.dist_m = RouteTotalLength(G, th[i].route)]]
    /\ UNCHANGED <<snapshot, loaded, G, node_ids, node_lat, node_lon, call>>

\* ---------------------------------------------------------- specifications
\* the routing library on networks of any shape
Next ==
    \/ Load
    \/ \E net \in NetTags, s \in NodeIds, t \in NodeIds : ShortestPath(net, s, t)
    \/ Return

Spec == Init /\ [][Next]_vars

\* loading and the nearest-node index on networks of any placement
NextLoad ==
    \/ LoadChain
    \/ \E lat \in QueryLats : NearestNode(lat)
    \/ Return

SpecLoad == Init /\ [][NextLoad]_vars

\* route_total_length_m on any route
NextLength ==
    \/ LoadLine
    \/ \E net \in NetTags, route \in Routes : TotalLength(net, route)
    \/ Return

SpecLength == Init /\ [][NextLength]_vars

\* concurrent requests, interleaved call by call
NextConc ==
    \/ LoadStreet
    \/ \E i \in Threads, a_lat \in EndLats, b_lat \in EndLats : Request(i, a_lat, b_lat)
    \/ \E i \in Threads : SnapSrc(i)
    \/ \E i \in Threads : SnapDst(i)
    \/ \E i \in Threads : Search(i)
    \/ \E i \in Threads : Fallback(i)
    \/ \E i \in Threads : Measure(i)

SpecConc == Init /\ [][NextConc]_vars

\* loading snapshots of several regions
NextRegion ==
    \/ LoadIslands
    \/ \E lat \in QueryLats : NearestNode(lat)
    \/ Return

SpecRegion == Init /\ [][NextRegion]_vars

\* ------------------------------------------------------ reference notions
\* a directed edge u -> v of g
Arc(g, u, v) == \E e \in Range(g.edges) : e.u = u /\ e.v = v

\* an edge between u and v in either direction
Joined(g, u, v) == Arc(g, u, v) \/ Arc(g, v, u)

\* the nodes within k steps of S, along the arcs or along edges of either direction
RECURSIVE Within(_, _, _, _)
Within(g, S, k, directed) ==
    IF k = 0 THEN S
    ELSE Within(g,
                S \cup {v \in NodeSet(g) :
                          \E u \in S : IF directed THEN Arc(g, u, v) ELSE Joined(g, u, v)},
                k - 1, directed)

\* a and b are nodes of g joined by a walk that ignores direction
Connected(g, a, b) ==
    /\ a \in NodeSet(g) /\ b \in NodeSet(g)
    /\ b \in Within(g, {a}, Len(g.nodes), FALSE)

\* a and b are nodes of g joined by a directed path from a to b
DirectedPath(g, a, b) ==
    /\ a \in NodeSet(g) /\ b \in NodeSet(g)
    /\ b \in Within(g, {a}, Len(g.nodes), TRUE)

\* the weakly-connected region of node a
Region(g, a) == Within(g, {a}, Len(g.nodes), FALSE)

\* the least of a non-empty set of lengths
Least(S) == CHOOSE a \in S : \A b \in S : a <= b

ArcLengths(g, u, v) == {e.length : e \in {f \in Range(g.edges) : f.u = u /\ f.v = v}}

\* the graph a search phase ran on
ViewOf(g, phase) == IF phase = "directed" THEN DirectedView(g) ELSE CompressedUndirected(g)

\* the cost of route p on a view: the sum of its edge weights
RECURSIVE PathCost(_, _)
PathCost(view, p) ==
    IF Len(p) <= 1 THEN 0
    ELSE view.length[<<p[1], p[2]>>] + PathCost(view, Tail(p))

\* every route from s to t on a view that visits no node twice
AllRoutes(view, s, t) ==
    {p \in UNION {[1..k -> Range(view.nodes)] : k \in 1..Len(view.nodes)} :
        /\ p[1] = s /\ p[Len(p)] = t
        /\ \A i, j \in DOMAIN p : i # j => p[i] # p[j]
        /\ \A i \in 1..(Len(p) - 1) : p[i + 1] \in Range(view.adj[p[i]])}

Searched == call.op = "astar_shortest_path"

Found == Searched /\ call.ok

\* ------------------------------------------------------------------ claims
\* C1: a route returned by shortestPath has a totalLength no greater than the
\* cost of any alternative source-to-target route on the graph the phase ran
\* on (the directed network, or the UndirectedView on fallback).
C1_Optimal ==
    Found =>
        \A alt \in AllRoutes(ViewOf(Net(call.net), call.phase), call.s, call.t) :
            RouteTotalLength(Net(call.net), call.route)
                <= PathCost(ViewOf(Net(call.net), call.phase), alt)

\* C2: after load_graph the network is one weakly-connected region, namely a
\* largest region of the snapshot with exactly the snapshot's nodes and edges
\* inside it; a snapshot of one region is kept whole.
C2_SingleRegion ==
    loaded =>
        /\ \A a \in NodeSet(G) : Region(G, a) = NodeSet(G)
        /\ \/ snapshot.nodes = <<>> /\ G.nodes = <<>>
           \/ \E a \in NodeSet(snapshot) :
                /\ NodeSet(G) = Region(snapshot, a)
                /\ \A b \in NodeSet(snapshot) :
                      Cardinality(Region(snapshot, b)) <= Cardinality(NodeSet(G))
        /\ G.nodes = SelectSeq(snapshot.nodes, LAMBDA n : n \in NodeSet(G))
        /\ LET kept == SelectSeq(snapshot.edges,
                                 LAMBDA e : e.u \in NodeSet(G) /\ e.v \in NodeSet(G))
           IN  /\ Len(G.edges) = Len(kept)
               /\ \A i \in DOMAIN kept :
                     G.edges[i].u = kept[i].u /\ G.edges[i].v = kept[i].v
        /\ (\A a \in NodeSet(snapshot) : Region(snapshot, a) = NodeSet(snapshot))
              => (G.nodes = snapshot.nodes /\ Len(G.edges) = Len(snapshot.edges))

\* C2 witness: a snapshot of several regions, loaded, with a region of two or more nodes kept
C2_Witness ==
    /\ loaded
    /\ Len(G.nodes) >= 2
    /\ Len(G.nodes) < Len(snapshot.nodes)
    /\ Len(G.edges) < Len(snapshot.edges)
    /\ G.nodes[1] # snapshot.nodes[1]

\* C3: the undirected view is searched only when no directed path exists; when
\* one exists the route follows directed edges only; and when every edge of the
\* network goes one way from A to B, shortestPath(B, A) falls back and returns
\* [B, A] with the length of the least A -> B edge.
C3_TwoPhase ==
    Searched =>
        LET g == Net(call.net)
        IN  /\ call.phase = "undirected" => ~DirectedPath(g, call.s, call.t)
            /\ DirectedPath(g, call.s, call.t) =>
                  /\ call.ok /\ call.phase = "directed"
                  /\ \A i \in 1..(Len(call.route) - 1) :
                        Arc(g, call.route[i], call.route[i + 1])
            /\ (/\ call.s # call.t
                /\ Arc(g, call.t, call.s)
                /\ \A e \in Range(g.edges) : e.u = call.t /\ e.v = call.s) =>
                  /\ call.ok /\ call.phase = "undirected"
                  /\ call.route = <<call.s, call.t>>
                  /\ RouteTotalLength(g, call.route) = Least(ArcLengths(g, call.t, call.s))

\* C3 witness: shortestPath(B, A) has answered on a network whose only edges go A -> B
C3_Witness ==
    /\ Found
    /\ call.s # call.t
    /\ Arc(Net(call.net), call.t, call.s)
    /\ \A e \in Range(Net(call.net).edges) : e.u = call.t /\ e.v = call.s
    /\ call.phase = "undirected"

\* C4 as claimed: nearestNode always returns a node of the loaded network, at
\* least distance, the first such node in enumeration order.
C4_AlwaysDefined ==
    call.op = "nearest_node" =>
        /\ call.ok
        /\ \E i \in DOMAIN G.nodes :
              /\ call.node = G.nodes[i]
              /\ \A j \in DOMAIN G.nodes :
                    Haversine(call.lat, Lon0, G.y[G.nodes[i]], G.x[G.nodes[i]])
                        <= Haversine(call.lat, Lon0, G.y[G.nodes[j]], G.x[G.nodes[j]])
              /\ \A j \in 1..(i - 1) :
                    Haversine(call.lat, Lon0, G.y[G.nodes[j]], G.x[G.nodes[j]])
                        > Haversine(call.lat, Lon0, G.y[G.nodes[i]], G.x[G.nodes[i]])

\* C4 as amended: on a loaded network of at least one node nearestNode returns
\* a node of it at least distance, the first such node in enumeration order;
\* on the empty network it raises IndexError.
C4_NearestOfNonEmpty ==
    call.op = "nearest_node" =>
        IF G.nodes = <<>>
        THEN ~call.ok /\ call.exc = "IndexError"
        ELSE /\ call.ok
             /\ \E i \in DOMAIN G.nodes :
                   /\ call.node = G.nodes[i]
                   /\ \A j \in DOMAIN G.nodes :
                         Haversine(call.lat, Lon0, G.y[G.nodes[i]], G.x[G.nodes[i]])
                             <= Haversine(call.lat, Lon0, G.y[G.nodes[j]], G.x[G.nodes[j]])
                   /\ \A j \in 1..(i - 1) :
                         Haversine(call.lat, Lon0, G.y[G.nodes[j]], G.x[G.nodes[j]])
                             > Haversine(call.lat, Lon0, G.y[G.nodes[i]], G.x[G.nodes[i]])

\* C4 witness: two nodes at different places are equidistant from the query
\* point and nearest_node has answered
C4_Witness ==
    /\ call.op = "nearest_node" /\ call.ok
    /\ \E i, j \in DOMAIN G.nodes :
          /\ i < j
          /\ call.node = G.nodes[i]
          /\ G.y[G.nodes[i]] # G.y[G.nodes[j]]
          /\ Haversine(call.lat, Lon0, G.y[G.nodes[i]], Lon0)
                = Haversine(call.lat, Lon0, G.y[G.nodes[j]], Lon0)

\* what the pair (u, v) of a route contributes
SegmentRef(g, u, v) ==
    IF ArcLengths(g, u, v) # {} THEN Least(ArcLengths(g, u, v))
    ELSE IF ArcLengths(g, v, u) # {} THEN Least(ArcLengths(g, v, u))
    ELSE 0

RECURSIVE TotalRef(_, _, _)
TotalRef(g, route, i) ==
    IF i >= Len(route) THEN 0
    ELSE SegmentRef(g, route[i], route[i + 1]) + TotalRef(g, route, i + 1)

\* C5: totalLength is the sum over consecutive pairs (u, v) of the least
\* length among the edges u -> v, else among the edges v -> u, else 0; it is 0
\* for a route of zero or one node.
C5_TotalLength ==
    call.op = "route_total_length_m" =>
        /\ call.total = TotalRef(Net(call.net), call.route, 1)
        /\ Len(call.route) <= 1 => call.total = 0

\* C5 witness: route [A, B] over two parallel edges A -> B of lengths 50 and 30 totals 30
C5_Witness ==
    /\ call.op = "route_total_length_m"
    /\ Len(call.route) = 2
    /\ ArcLengths(Net(call.net), call.route[1], call.route[2]) = {30, 50}
    /\ call.total = 30

\* C6 as claimed: shortestPath returns a route exactly when source and target
\* are joined by a walk that ignores direction; every failure, that of a
\* source or target that is no node included, is the no-path signal
\* (NetworkXNoPath), with no route handed back.
C6_AlwaysNoPath ==
    Searched =>
        /\ call.ok <=> Connected(Net(call.net), call.s, call.t)
        /\ ~call.ok => call.route = <<>> /\ call.exc = "NetworkXNoPath"

\* C6 as amended: shortestPath returns a route exactly when source and target
\* are nodes joined by a walk that ignores direction; otherwise it raises,
\* NodeNotFound when source or target is no node and NetworkXNoPath when both
\* are nodes, and hands back no route at all.
C6_RouteOrFailure ==
    Searched =>
        LET g == Net(call.net)
        IN  /\ call.ok <=> Connected(g, call.s, call.t)
            /\ call.ok => call.route # <<>> /\ call.exc = ""
            /\ ~call.ok =>
                  /\ call.route = <<>>
                  /\ call.exc = IF call.s \in NodeSet(g) /\ call.t \in NodeSet(g)
                                THEN "NetworkXNoPath" ELSE "NodeNotFound"

\* C6 witness: both endpoints are nodes, no walk joins them, the search has failed
C6_Witness ==
    /\ Searched /\ ~call.ok
    /\ call.s \in NodeSet(Net(call.net)) /\ call.t \in NodeSet(Net(call.net))
    /\ call.exc = "NetworkXNoPath"

\* the length load_graph gives an edge of the snapshot
LengthRef(snap, e) ==
    IF e.length \notin {NoLength, BadLength} THEN e.length
    ELSE StepMetres * Abs(snap.y[e.u] - snap.y[e.v])

\* C7: after load_graph every edge has a numeric length >= 0: the snapshot's
\* own when present and parsable, else the great-circle distance between the
\* edge's endpoints.
C7_Lengths ==
    loaded =>
        LET kept == SelectSeq(snapshot.edges,
                              LAMBDA e : e.u \in NodeSet(G) /\ e.v \in NodeSet(G))
        IN  /\ Len(G.edges) = Len(kept)
            /\ \A i \in DOMAIN G.edges :
                  /\ G.edges[i].length >= 0
                  /\ G.edges[i].length = LengthRef(snapshot, kept[i])

\* what a request computes when it runs alone on the network as loaded
AloneOn(g, a_lat, b_lat) ==
    LET ids  == g.nodes
        lats == [i \in DOMAIN g.nodes |-> g.y[g.nodes[i]]]
        lons == [i \in DOMAIN g.nodes |-> g.x[g.nodes[i]]]
        src  == NearestNodeOf(ids, lats, lons, a_lat, Lon0)
        dst  == NearestNodeOf(ids, lats, lons, b_lat, Lon0)
        r    == AstarShortestPath(g, src.node, dst.node)
    IN  [src |-> src.node, dst |-> dst.node, ok |-> src.ok /\ dst.ok /\ r.ok,
         route |-> r.path, dist_m |-> RouteTotalLength(g, r.path)]

\* C8: once the network and the index are built, no interleaving of the
\* requests' calls changes them, and every request ends with the result it
\* has when it runs alone.
C8_Isolation ==
    /\ [][loaded => /\ G' = G
                    /\ node_ids' = node_ids
                    /\ node_lat' = node_lat
                    /\ node_lon' = node_lon]_vars
    /\ [](\A i \in Threads :
            LET alone == AloneOn(LoadGraph(snapshot), th[i].a_lat, th[i].b_lat)
            IN  /\ th[i].pc = "done" =>
                      /\ alone.ok
                      /\ th[i].src = alone.src /\ th[i].dst = alone.dst
                      /\ th[i].route = alone.route
                      /\ th[i].dist_m = alone.dist_m
                /\ th[i].pc = "failed" => ~alone.ok)

\* C8 witness: two requests are in flight at once, one past its fallback
\* search and one still searching
C8_Witness ==
    \E i, j \in Threads :
        /\ i # j
        /\ th[i].pc = "done" /\ th[i].phase = "undirected"
        /\ th[j].pc \in {"search", "fallback", "measure"}

\* C9: the distance totalLength reports for a returned route equals the cost
\* the search minimised on the graph it ran on.
C9_TotalIsSearchCost ==
    Found =>
        RouteTotalLength(Net(call.net), call.route)
            = PathCost(ViewOf(Net(call.net), call.phase), call.route)

\* C10: a returned route starts at the source, ends at the target, and every
\* consecutive pair is joined by an edge in one direction or the other, so
\* totalLength never adds 0 for want of an edge.
C10_WellFormed ==
    Found =>
        LET g == Net(call.net)
        IN  /\ Len(call.route) >= 1
            /\ call.route[1] = call.s
            /\ call.route[Len(call.route)] = call.t
            /\ \A i \in 1..(Len(call.route) - 1) :
                  /\ Joined(g, call.route[i], call.route[i + 1])
                  /\ HasEdge(g, call.route[i], call.route[i + 1])
                        \/ HasEdge(g, call.route[i + 1], call.route[i])

\* C10 witness: a route of three nodes found by the undirected fallback
C10_Witness ==
    /\ Found
    /\ call.phase = "undirected"
    /\ Len(call.route) >= 3
====
